---------------------------- MODULE Spec2Model ----------------------------
(***************************************************************************)
(* Verification model of iguacel/incendios-25: the small-multiples SVG     *)
(* renderers (scripts 02, 04, 06) and the burned-area statistics scripts   *)
(* (11, 12, 13).                                                           *)
(*                                                                         *)
(* Geometry of the renderers is given in the metric frame (EPSG:3035) as   *)
(* rings of integer vertices, one unit = 100 m, so that one square unit is *)
(* one hectare (geometry.area / 10_000).  Geometry of the statistics       *)
(* scripts is a set of cells of a fixed partition of the plane, each cell  *)
(* with its area in hectares, so that union and intersection are exact.    *)
(***************************************************************************)
EXTENDS Integers, Sequences, FiniteSets, TLC

VARIABLES
    prog,        \* the script that runs: "02", "04", "06", "11", "12", "13", "color"
    pc,          \* position in main()
    err,         \* how the run ended: "none" or the exception that left main()
    gdf,         \* renderer: the Features read from the input file(s)
    cols,        \* renderer: --cols
    min_ha,      \* renderer: --min-ha
    area_ha_final, \* renderer: the column added by compute_area_ha
    rows_kept,   \* renderer: ids (positions in gdf) of the frame being drawn, in frame order
    gran,        \* renderer 06: ids of gdf_gran, in frame order
    rosa,        \* renderer 06: ids of gdf_rosa, in frame order
    files,       \* renderer: the canvases written so far, by output name
    ccaa,        \* statistics: the boundary Features read
    fires,       \* statistics: the event Features read
    diss,        \* statistics: the dissolved boundary frame
    fires_big,   \* statistics: the events kept by filter_fires_min_ha
    inter,       \* statistics: the rows of gpd.overlay
    out,         \* statistics: the result rows, in output order
    src,         \* statistics: what the input files on disk are like
    row,         \* classifier: the Feature row being classified
    color,       \* classifier: the result of pick_color / pick_color_2025
    arg,         \* function runs: the argument of the call
    ret          \* function runs: what the call returned

vars == << prog, pc, err, gdf, cols, min_ha, area_ha_final, rows_kept, gran, rosa,
           files, ccaa, fires, diss, fires_big, inter, out, src, row, color, arg, ret >>

renderVars == << gdf, cols, min_ha, area_ha_final, rows_kept, gran, rosa, files >>
statsVars  == << ccaa, fires, diss, fires_big, inter, out, src >>
colorVars  == << row, color >>
fnVars     == << arg, ret >>

-----------------------------------------------------------------------------
(* Bounds of the model *)

MaxFeatures == 2      \* Features in a renderer input
MaxEvents == 2        \* event Features in a statistics input
MaxBoundaries == 2    \* boundary Features in a statistics input

-----------------------------------------------------------------------------
(* Generic helpers *)


SetMax(S) == CHOOSE m \in S : \A x \in S : x <= m
SetMin(S) == CHOOSE m \in S : \A x \in S : m <= x

Range(s) == { s[i] : i \in DOMAIN s }

RECURSIVE SeqSum(_)
SeqSum(s) == IF s = << >> THEN 0 ELSE Head(s) + SeqSum(Tail(s))

\* the sum of f[x] over the finite set S
RECURSIVE SumOver(_, _)
SumOver(f, S) ==
    IF S = {} THEN 0
    ELSE LET x == CHOOSE y \in S : TRUE IN f[x] + SumOver(f, S \ {x})

\* all orderings of the elements of sequence s (s has no duplicates)
Orderings(s) ==
    { p \in [1..Len(s) -> Range(s)] : \A i, j \in 1..Len(s) : i # j => p[i] # p[j] }

\* sequences over S of length 0..n
SeqsUpTo(S, n) == UNION { [1..k -> S] : k \in 0..n }

\* Rationals as pairs <<numerator, denominator>>, denominator > 0
RECURSIVE Gcd(_, _)
Gcd(a, b) == IF b = 0 THEN a ELSE Gcd(b, a % b)
Rat(n, d) == LET g == Gcd(n, d) IN IF g = 0 THEN << n, d >> ELSE << n \div g, d \div g >>
RatLE(a, b) == a[1] * b[2] <= b[1] * a[2]
RatMin(a, b) == IF RatLE(a, b) THEN a ELSE b

-----------------------------------------------------------------------------
(* Geometry of the renderers: shapely geometries in the metric frame *)

Rect(x0, y0, w, h) ==
    << << x0, y0 >>, << x0 + w, y0 >>, << x0 + w, y0 + h >>, << x0, y0 + h >>, << x0, y0 >> >>

Poly(ext, holes) == [exterior |-> ext, interiors |-> holes]

\* POLYGON EMPTY
PolygonEmpty == [type |-> "Polygon", geoms |-> << >>, coords |-> << >>]
\* a square Polygon of side s
Square(s) == [type |-> "Polygon", geoms |-> << Poly(Rect(1, 1, s, s), << >>) >>, coords |-> << >>]
\* a 3 x 3 square Polygon with a 1 x 1 hole
Donut ==
    [type |-> "Polygon", geoms |-> << Poly(Rect(1, 1, 3, 3), << Rect(2, 2, 1, 1) >>) >>,
     coords |-> << >>]
\* a MultiPolygon of two 1 x 1 squares, the second 2 to the right of and 1
\* above the first
TwoSquares ==
    [type |-> "MultiPolygon",
     geoms |-> << Poly(Rect(1, 1, 1, 1), << >>), Poly(Rect(3, 2, 1, 1), << >>) >>,
     coords |-> << >>]
\* a vertical LineString of length h: what the validity repair makes of a collapsed ring
VLine(h) == [type |-> "LineString", geoms |-> << >>, coords |-> << << 3, 1 >>, << 3, 1 + h >> >>]
\* an invalid Polygon whose ring runs up a vertical segment of length h and back
Collapsed(h) ==
    [type |-> "Polygon",
     geoms |-> << Poly(<< << 3, 1 >>, << 3, 1 + h >>, << 3, 1 >>, << 3, 1 >> >>, << >>) >>,
     coords |-> << >>]

RingsOf(poly) == { poly.exterior } \cup Range(poly.interiors)

\* every vertex of a geometry
Points(g) ==
    Range(g.coords) \cup UNION { UNION { Range(r) : r \in RingsOf(p) } : p \in Range(g.geoms) }

is_empty(g) == Points(g) = {}

\* geom.bounds = (minx, miny, maxx, maxy) of a non-empty geometry
Bounds(g) ==
    LET xs == { p[1] : p \in Points(g) }
        ys == { p[2] : p \in Points(g) }
    IN  << SetMin(xs), SetMin(ys), SetMax(xs), SetMax(ys) >>

BoundsW(g) == Bounds(g)[3] - Bounds(g)[1]
BoundsH(g) == Bounds(g)[4] - Bounds(g)[2]

\* twice the signed area of a closed ring (shoelace)
RECURSIVE Shoelace2(_)
Shoelace2(r) ==
    IF Len(r) < 2 THEN 0
    ELSE (r[1][1] * r[2][2] - r[2][1] * r[1][2]) + Shoelace2(Tail(r))

Abs(x) == IF x < 0 THEN -x ELSE x

PolyArea2(p) ==
    Abs(Shoelace2(p.exterior))
      - SeqSum([i \in DOMAIN p.interiors |-> Abs(Shoelace2(p.interiors[i]))])

\* to_crs(3035).geometry.area / 10_000.0 : hectares; lines and points measure 0
GeomAreaHa(g) == SeqSum([i \in DOMAIN g.geoms |-> PolyArea2(g.geoms[i])]) \div 2

-----------------------------------------------------------------------------
(* make_valid of the renderers (02, 04, 06) *)

\* the outcome of a library call: it raised, or it returned a geometry
Raised == [raises |-> TRUE, geom |-> PolygonEmpty]
Returned(g) == [raises |-> FALSE, geom |-> g]

IsCollapsed(g) == g.type = "Polygon" /\ g.geoms # << >> /\ GeomAreaHa(g) = 0

\* what shapely.validation.make_valid returns when it succeeds: a valid geometry
\* as it is, the line a collapsed ring covers
shapely_make_valid(g) ==
    IF IsCollapsed(g)
    THEN [type |-> "LineString", geoms |-> << >>, coords |-> SubSeq(g.geoms[1].exterior, 1, 2)]
    ELSE g

\* what geom.buffer(0) returns when it succeeds: a valid geometry as it is,
\* POLYGON EMPTY for a collapsed ring
buffer0(g) == IF IsCollapsed(g) THEN PolygonEmpty ELSE g

\* make_valid with the two try blocks tried in the other order
make_valid_buffer_first(geom, rep, buf) ==
    IF ~buf.raises THEN buf.geom
    ELSE IF ~rep.raises THEN rep.geom
    ELSE geom
\* make_valid(geom), where rep is the outcome of _make_valid(geom) and buf the
\* outcome of geom.buffer(0): try / except Exception / try / except Exception
make_valid(geom, rep, buf) ==
    IF ~rep.raises THEN rep.geom
    ELSE IF ~buf.raises THEN buf.geom
    ELSE geom

-----------------------------------------------------------------------------
(* Attribute values of a Feature *)

\* the missing value of a column (None / NaN)
NA == -1

\* firedate values: missing, the empty string, text that is no date, or an ISO
\* timestamp of August 2025 given as day, hour and UTC offset in hours
FdNone  == [k |-> "none", d |-> 0, h |-> 0, off |-> 0]
FdEmpty == [k |-> "empty", d |-> 0, h |-> 0, off |-> 0]
FdBad   == [k |-> "text", d |-> 0, h |-> 0, off |-> 0]
FdIso(d, h, off) == [k |-> "iso", d |-> d, h |-> h, off |-> off]

\* fireyear values: missing (None), NaN, an integer, or a string
FyNone   == [k |-> "none", v |-> 0, s |-> ""]
FyNaN    == [k |-> "nan", v |-> 0, s |-> ""]
FyInt(v) == [k |-> "int", v |-> v, s |-> ""]
FyStr(s) == [k |-> "str", v |-> 0, s |-> s]

-----------------------------------------------------------------------------
(* Classification: parse_firedate, pick_color (04), pick_color_2025 (06) *)

COLOR_2025    == "#fac4c5"
COLOR_RECENT  == "#a80127"
COLOR_DEFAULT == "#d8d0d0"
COLOR_ROSA    == "#fac4c5"
COLOR_GRANATE == "#a80127"

\* datetime(2025, 8, 8, 0, 0, 0, tzinfo=utc): hours are counted as day-of-August * 24 + hour
cutoff_dt_utc == 8 * 24

NoDate == [some |-> FALSE, ts |-> 0]

\* pd.to_datetime(val, utc=True): None for a missing, empty or unparseable value,
\* else the instant in UTC (the offset is subtracted, a naive value is taken as UTC)
parse_firedate(val) ==
    IF val.k = "none" \/ val.k = "empty" THEN NoDate
    ELSE IF val.k = "iso" THEN [some |-> TRUE, ts |-> val.d * 24 + val.h - val.off]
    ELSE NoDate

\* the decimal strings int() accepts, with their values
IntLiterals == { << "2025", 2025 >>, << " 2025 ", 2025 >>, << "2016", 2016 >> }

\* Python's int(val): raises TypeError on None, ValueError on NaN and on a
\* string that is no integer literal
PyInt(val) ==
    CASE val.k = "none" -> [exc |-> "TypeError", v |-> 0]
      [] val.k = "nan"  -> [exc |-> "ValueError", v |-> 0]
      [] val.k = "int"  -> [exc |-> "none", v |-> val.v]
      [] OTHER ->
           IF \E l \in IntLiterals : l[1] = val.s
           THEN [exc |-> "none", v |-> (CHOOSE l \in IntLiterals : l[1] = val.s)[2]]
           ELSE [exc |-> "ValueError", v |-> 0]

\* pick_color of script 04: the colour, or the exception that int() raises
pick_color(r, cutoff) ==
    LET fd == parse_firedate(r.firedate)
        yr == PyInt(r.fireyear)
    IN  IF fd.some /\ fd.ts >= cutoff THEN [exc |-> "none", color |-> COLOR_RECENT]
        ELSE IF yr.exc # "none" THEN [exc |-> yr.exc, color |-> ""]
        ELSE IF yr.v = 2025 THEN [exc |-> "none", color |-> COLOR_2025]
        ELSE [exc |-> "none", color |-> COLOR_DEFAULT]

\* pick_color_2025 of script 06: two colours, the year is not read
pick_color_2025(r, cutoff) ==
    LET fd == parse_firedate(r.firedate)
    IN  IF fd.some /\ fd.ts >= cutoff THEN [exc |-> "none", color |-> COLOR_GRANATE]
        ELSE [exc |-> "none", color |-> COLOR_ROSA]

\* is_granate with fd > cutoff: the cutoff instant itself is left out
is_granate_after(r, cutoff) ==
    LET fd == parse_firedate(r.firedate)
    IN  IF ~fd.some THEN FALSE ELSE fd.ts > cutoff
\* is_granate, the mask of the two sub-collections of script 06
is_granate(r, cutoff) ==
    LET fd == parse_firedate(r.firedate)
    IN  IF ~fd.some THEN FALSE ELSE fd.ts >= cutoff

-----------------------------------------------------------------------------
(* Renderer: compute_area_ha, the sort, draw_geoms_to_svg_scaled *)

Cell == 64        \* --cell default
Margin == 24      \* --margin default
inner_pad == 4
inner == Cell - inner_pad * 2

\* compute_area_ha that takes the attribute column for every row once it exists
compute_area_ha_column(g) ==
    IF \E i \in DOMAIN g : g[i].area_ha # NA
    THEN [i \in DOMAIN g |-> g[i].area_ha]
    ELSE [i \in DOMAIN g |-> GeomAreaHa(g[i].geom)]
\* compute_area_ha: the area column of a frame, one value per Feature
compute_area_ha(g) ==
    IF \E i \in DOMAIN g : g[i].area_ha # NA     \* column present and notna().any()
    THEN [i \in DOMAIN g |->
            IF g[i].area_ha = NA THEN GeomAreaHa(g[i].geom) ELSE g[i].area_ha]
    ELSE [i \in DOMAIN g |-> GeomAreaHa(g[i].geom)]

\* DataFrame.sort_values(key, ascending=False) with the default kind="quicksort",
\* which is not a stable sort: every descending order of the rows is a possible
\* result, rows with equal keys in any relative order
sort_values_asc(ids, key) ==
    { p \in Orderings(ids) : \A i, j \in DOMAIN p : i < j => key[p[i]] <= key[p[j]] }
sort_values(ids, key) ==
    { p \in Orderings(ids) : \A i, j \in DOMAIN p : i < j => key[p[i]] >= key[p[j]] }

\* n / cols rounded down instead
FloorDiv(n, c) == n \div c
\* math.ceil(n / cols)
CeilDiv(n, c) == (n + c - 1) \div c

IsPolygonal(g) == g.type \in { "Polygon", "MultiPolygon" }

\* f"{x:.2f}" of a rational x >= 0: x rounded to hundredths, a half to the even
\* digit; the result is the number of hundredths
fmt(q) ==
    LET n == 100 * q[1]
        fl == n \div q[2]
        rem == n % q[2]
    IN  IF 2 * rem > q[2] THEN fl + 1
        ELSE IF 2 * rem < q[2] THEN fl
        ELSE IF fl % 2 = 0 THEN fl ELSE fl + 1

\* transform without the translation to the cell origin
transform_unanchored(x, y, ox, oy, scale, bounds) ==
    << Rat((x - bounds[1]) * scale[1], scale[2]),
       Rat((bounds[4] - bounds[2]) * scale[1] - (y - bounds[2]) * scale[1], scale[2]) >>
\* transform of path_from_polygon with flip_y: X = (x - minx) * scale + ox,
\* Yraw = (y - miny) * scale + oy, Y = oy + (maxy - miny) * scale - (Yraw - oy)
transform(x, y, ox, oy, scale, bounds) ==
    << Rat((x - bounds[1]) * scale[1] + ox * scale[2], scale[2]),
       Rat(oy * scale[2] + (bounds[4] - bounds[2]) * scale[1] - (y - bounds[2]) * scale[1],
           scale[2]) >>

\* ring_to_cmds with the formatting of d_parts: "M X Y" for the first vertex,
\* "L X Y" for every other vertex, then "Z"
ring_to_cmds(coords, ox, oy, scale, bounds) ==
    [j \in 1..(Len(coords) + 1) |->
        IF j = Len(coords) + 1 THEN << "Z", NA, NA >>
        ELSE LET t == transform(coords[j][1], coords[j][2], ox, oy, scale, bounds)
             IN  << IF j = 1 THEN "M" ELSE "L", fmt(t[1]), fmt(t[2]) >>]

\* the concatenation of a sequence of sequences
RECURSIVE Flatten(_)
Flatten(ss) == IF ss = << >> THEN << >> ELSE Head(ss) \o Flatten(Tail(ss))

\* path_from_polygon that takes the bounds of the polygon it is given
path_own_bounds(poly, ox, oy, scale, bounds) ==
    LET own == Bounds([type |-> "Polygon", geoms |-> << poly >>, coords |-> << >>])
    IN  ring_to_cmds(poly.exterior, ox, oy, scale, own)
          \o Flatten([h \in DOMAIN poly.interiors |->
                        ring_to_cmds(poly.interiors[h], ox, oy, scale, own)])
\* path_from_polygon that emits the exterior ring only
path_without_holes(poly, ox, oy, scale, bounds) ==
    ring_to_cmds(poly.exterior, ox, oy, scale, bounds)
\* path_from_polygon: the commands of the exterior ring, then of every hole
path_from_polygon(poly, ox, oy, scale, bounds) ==
    ring_to_cmds(poly.exterior, ox, oy, scale, bounds)
      \o Flatten([h \in DOMAIN poly.interiors |->
                    ring_to_cmds(poly.interiors[h], ox, oy, scale, bounds)])

\* the fill of one drawn Feature: script 02 has one fill, 04 and 06 classify
FillOf(script, f) ==
    CASE script = "04" -> pick_color(f, cutoff_dt_utc)
      [] script = "06" -> pick_color_2025(f, cutoff_dt_utc)
      [] OTHER -> [exc |-> "none", color |-> "#000"]

NoScene == [width |-> 0, height |-> 0, n |-> 0, global_scale |-> << 0, 1 >>, items |-> << >>]

\* global_scale = min(inner / max_w, inner / max_h); script 06 guards the division
GlobalScale(script, max_w, max_h) ==
    IF max_w > 0 /\ max_h > 0
    THEN LET a == Rat(inner, max_w)
             b == Rat(inner, max_h)
         IN  [exc |-> "none", scale |-> RatMin(a, b)]
    ELSE IF script = "06" THEN [exc |-> "none", scale |-> << 1, 1 >>]
    ELSE [exc |-> "ZeroDivisionError", scale |-> << 0, 1 >>]

\* draw_geoms_to_svg_scaled on the Features of `frame` (in frame order): the
\* exception that leaves it, or the scene that dwg.save() writes
draw_geoms_to_svg_scaled(script, frame, ncols) ==
    LET n == Len(frame)
        nonempty == { i \in 1..n : ~is_empty(frame[i].geom) }
        max_w == SetMax({ BoundsW(frame[i].geom) : i \in nonempty })
        max_h == SetMax({ BoundsH(frame[i].geom) : i \in nonempty })
        gs == GlobalScale(script, max_w, max_h)
        drawn == { i \in nonempty : IsPolygonal(frame[i].geom) }
        failing == { i \in drawn : FillOf(script, frame[i]).exc # "none" }
        item(i) ==
            [ i |-> i - 1,
              id |-> frame[i].id,
              r |-> (i - 1) \div ncols,
              c |-> (i - 1) % ncols,
              ox_cell |-> Margin + ((i - 1) % ncols) * Cell + inner_pad,
              oy_cell |-> Margin + ((i - 1) \div ncols) * Cell + inner_pad,
              scale |-> gs.scale,     \* scale = global_scale, the same for all
              d |-> Flatten([p \in DOMAIN frame[i].geom.geoms |->     \* d_total
                        path_from_polygon(frame[i].geom.geoms[p],
                            Margin + ((i - 1) % ncols) * Cell + inner_pad,
                            Margin + ((i - 1) \div ncols) * Cell + inner_pad,
                            gs.scale, Bounds(frame[i].geom))]),
              fill |-> FillOf(script, frame[i]).color,
              rank |-> IF script = "02" THEN i ELSE 0 ]   \* the rank text (--label)
        all == [i \in 1..n |-> i]
        IsDrawn(i) == i \in drawn
        kept == SelectSeq(all, IsDrawn)
    IN  IF n = 0 THEN [exc |-> "SystemExit", scene |-> NoScene]
        ELSE IF nonempty = {} THEN [exc |-> "ValueError", scene |-> NoScene]
        ELSE IF gs.exc # "none" THEN [exc |-> gs.exc, scene |-> NoScene]
        ELSE IF failing # {} THEN
            [exc |-> FillOf(script, frame[SetMin(failing)]).exc, scene |-> NoScene]
        ELSE [exc |-> "none",
              scene |-> [ width |-> Margin * 2 + ncols * Cell,
                          height |-> Margin * 2 + CeilDiv(n, ncols) * Cell,
                          n |-> n,
                          global_scale |-> gs.scale,
                          items |-> [k \in DOMAIN kept |-> item(kept[k])] ]]

\* svgwrite.Drawing(size=(margin*2+cell, margin*2+cell)).save(): the empty canvas
\* script 06 writes for an empty sub-collection
EmptyCanvas ==
    [width |-> Margin * 2 + Cell, height |-> Margin * 2 + Cell, n |-> 0,
     global_scale |-> << 0, 1 >>, items |-> << >>]

\* the frame of the whole collection, whatever rows are asked for
FrameOf_whole(ids) ==
    [k \in DOMAIN rows_kept |->
        [ id |-> rows_kept[k], geom |-> gdf[rows_kept[k]].geom,
          firedate |-> gdf[rows_kept[k]].firedate, fireyear |-> gdf[rows_kept[k]].fireyear ]]
\* the rows `ids` of gdf as a frame, each with its id
FrameOf(ids) ==
    [k \in DOMAIN ids |->
        [ id |-> ids[k], geom |-> gdf[ids[k]].geom, firedate |-> gdf[ids[k]].firedate,
          fireyear |-> gdf[ids[k]].fireyear ]]

-----------------------------------------------------------------------------
(* The renderer scripts 02, 04 and 06 *)

\* the geometries of an input file; the library calls of make_valid succeed on them
Shapes == { PolygonEmpty, Square(1), Donut, Collapsed(2) }
\* the area_ha attribute a Feature of geometry g can carry: missing, or 4 ha
\* on the 1 ha square (an attribute that differs from the measured area)
AreaAttrs(g) == IF g = Square(1) THEN { NA, 4 } ELSE { NA }

\* the Features an input file of each renderer is drawn from
RenderFeatures(p) ==
    CASE p = "02" ->
           UNION { { [geom |-> g, area_ha |-> a, firedate |-> FdNone, fireyear |-> FyNone] :
                       a \in AreaAttrs(g) } : g \in Shapes }
             \cup { [geom |-> TwoSquares, area_ha |-> NA, firedate |-> FdNone,
                     fireyear |-> FyNone] }
      [] p = "04" ->
           UNION { { [geom |-> g, area_ha |-> a, firedate |-> dy[1], fireyear |-> dy[2]] :
                       a \in AreaAttrs(g),
                       dy \in { << FdNone, FyInt(2025) >>, << FdIso(8, 0, 0), FyInt(2016) >>,
                                << FdNone, FyNone >> } } : g \in Shapes }
             \cup { [geom |-> TwoSquares, area_ha |-> NA, firedate |-> FdNone,
                     fireyear |-> FyInt(2025)] }
      [] OTHER ->
           UNION { { [geom |-> g, area_ha |-> a, firedate |-> d, fireyear |-> FyInt(2025)] :
                       a \in AreaAttrs(g),
                       d \in { FdNone, FdIso(7, 23, 0), FdIso(8, 0, 0) } } : g \in Shapes }
             \cup { [geom |-> Square(1), area_ha |-> NA, firedate |-> FdBad,
                     fireyear |-> FyInt(2025)],
                   [geom |-> TwoSquares, area_ha |-> NA, firedate |-> FdIso(8, 0, 0),
                     fireyear |-> FyInt(2025)] }

ColsSet == { 1, 2, 14 }
MinHaSet(p) == IF p = "02" THEN { 0 } ELSE { 0, 2 }

\* the input files of a statistics script: whether each exists, whether the
\* frame read from it has a CRS, whether the boundary frame has a NAMEUNIT column
SrcOk ==
    [ccaa_exists |-> TRUE, fires_exists |-> TRUE, ccaa_crs |-> TRUE, NAMEUNIT |-> TRUE,
     fires_crs |-> TRUE]

StatsIdle ==
    /\ ccaa = << >> /\ fires = << >> /\ diss = << >>
    /\ fires_big = << >> /\ inter = << >> /\ out = << >>
    /\ src = SrcOk
ColorIdle == row = FdNone /\ color = ""
FnIdle == arg = << >> /\ ret = << >>
RenderIdle ==
    /\ gdf = << >> /\ cols = 0 /\ min_ha = 0 /\ area_ha_final = << >>
    /\ rows_kept = << >> /\ gran = << >> /\ rosa = << >> /\ files = << >>

InitRender ==
    /\ prog \in { "02", "04", "06" }
    /\ pc = "read"
    /\ err = "none"
    /\ gdf \in SeqsUpTo(RenderFeatures(prog), MaxFeatures)
    /\ cols \in ColsSet
    /\ min_ha \in MinHaSet(prog)
    /\ area_ha_final = << >>
    /\ rows_kept = << >>
    /\ gran = << >>
    /\ rosa = << >>
    /\ files = << >>
    /\ StatsIdle
    /\ ColorIdle
    /\ FnIdle

Raise(e) == err' = e /\ pc' = "exit"

\* main: gpd.read_file, the empty check, make_valid on every geometry and
\* compute_area_ha
ReadAndMeasure ==
    /\ prog \in { "02", "04", "06" }
    /\ pc = "read"
    /\ IF gdf = << >>
       THEN /\ Raise("SystemExit")
            /\ UNCHANGED << gdf, area_ha_final, rows_kept >>
       ELSE /\ gdf' = [i \in DOMAIN gdf |->
                         [gdf[i] EXCEPT !.geom = make_valid(@, Returned(shapely_make_valid(@)),
                                                            Returned(buffer0(@)))]]
            /\ area_ha_final' = compute_area_ha(gdf')
            /\ rows_kept' = [i \in DOMAIN gdf |-> i]
            /\ pc' = IF prog = "02" THEN "sort" ELSE "filter"
            /\ err' = err
    /\ UNCHANGED << prog, cols, min_ha, gran, rosa, files, statsVars, colorVars, fnVars >>

\* main of 04 and 06: keep area_ha_final >= min_ha, exit when nothing is left
FilterMinHa ==
    /\ pc = "filter"
    /\ LET Big(i) == area_ha_final[i] >= min_ha
           kept == SelectSeq(rows_kept, Big)
       IN  IF kept = << >>
           THEN Raise("SystemExit") /\ UNCHANGED rows_kept
           ELSE rows_kept' = kept /\ pc' = "sort" /\ err' = err
    /\ UNCHANGED << prog, gdf, cols, min_ha, area_ha_final, gran, rosa, files,
                    statsVars, colorVars, fnVars >>

\* main: sort_values("area_ha_final", ascending=False), reset_index, to_crs(3035)
SortByArea ==
    /\ pc = "sort"
    /\ \E p \in sort_values(rows_kept, area_ha_final) : rows_kept' = p
    /\ pc' = "draw"
    /\ UNCHANGED << prog, err, gdf, cols, min_ha, area_ha_final, gran, rosa, files,
                    statsVars, colorVars, fnVars >>

\* one call of draw_geoms_to_svg_scaled(frame, out_path) followed by `next`
DrawTo(name, ids, next) ==
    LET res == draw_geoms_to_svg_scaled(prog, FrameOf(ids), cols)
    IN  IF res.exc # "none"
        THEN Raise(res.exc) /\ UNCHANGED files
        ELSE /\ files' = (name :> res.scene) @@ files
             /\ pc' = next
             /\ err' = err

\* main: the scene with every Feature
DrawAll ==
    /\ pc = "draw"
    /\ DrawTo("out", rows_kept, IF prog = "06" THEN "subsets" ELSE "done")
    /\ UNCHANGED << prog, gdf, cols, min_ha, area_ha_final, rows_kept, gran, rosa,
                    statsVars, colorVars, fnVars >>

\* main of 06: the two sub-collections by is_granate, each sorted again
SplitSubsets ==
    /\ pc = "subsets"
    /\ LET IsGran(i) == is_granate(gdf[i], cutoff_dt_utc)
           IsRosa(i) == ~is_granate(gdf[i], cutoff_dt_utc)
       IN  /\ \E p \in sort_values(SelectSeq(rows_kept, IsGran), area_ha_final) : gran' = p
           /\ \E p \in sort_values(SelectSeq(rows_kept, IsRosa), area_ha_final) : rosa' = p
    /\ pc' = "granates"
    /\ UNCHANGED << prog, err, gdf, cols, min_ha, area_ha_final, rows_kept, files,
                    statsVars, colorVars, fnVars >>

\* DrawGranates without the len(gdf_gran) > 0 guard
DrawGranates_unguarded ==
    /\ pc = "granates"
    /\ DrawTo("out_granates", gran, "rosas")
    /\ UNCHANGED << prog, gdf, cols, min_ha, area_ha_final, rows_kept, gran, rosa,
                    statsVars, colorVars, fnVars >>

\* main of 06: the scene of the granates, or the empty canvas when there are none
DrawGranates ==
    /\ pc = "granates"
    /\ IF Len(gran) > 0
       THEN DrawTo("out_granates", gran, "rosas")
       ELSE /\ files' = ("out_granates" :> EmptyCanvas) @@ files
            /\ pc' = "rosas"
            /\ err' = err
    /\ UNCHANGED << prog, gdf, cols, min_ha, area_ha_final, rows_kept, gran, rosa,
                    statsVars, colorVars, fnVars >>

\* main of 06: the scene of the rosas, or the empty canvas when there are none
DrawRosas ==
    /\ pc = "rosas"
    /\ IF Len(rosa) > 0
       THEN DrawTo("out_rosas", rosa, "done")
       ELSE /\ files' = ("out_rosas" :> EmptyCanvas) @@ files
            /\ pc' = "done"
            /\ err' = err
    /\ UNCHANGED << prog, gdf, cols, min_ha, area_ha_final, rows_kept, gran, rosa,
                    statsVars, colorVars, fnVars >>

NextRender ==
    \/ ReadAndMeasure
    \/ FilterMinHa
    \/ SortByArea
    \/ DrawAll
    \/ SplitSubsets
    \/ DrawGranates
    \/ DrawRosas

SpecRender == InitRender /\ [][NextRender]_vars

-----------------------------------------------------------------------------
(* Statistics scripts 11, 12 and 13: geometry as sets of cells *)

Cells == { "c1", "c2", "c3", "c4" }
\* the area of each cell in hectares, measured in the metric frame
CellHa == [c \in Cells |-> CASE c = "c1" -> 30 [] c = "c2" -> 20 [] c = "c3" -> 950 [] OTHER -> 40]

\* to_crs(AREA_EPSG).geometry.area / 10000.0
AreaHa(g) == SumOver(CellHa, g \cap Cells)

\* a defect of a geometry that makes the GEOS call behind buffer(0) raise
Unrepairable == "x"

\* a NAMEUNIT value is the sequence of its "/"-separated parts
Name(n) == << n >>
\* col(label): the HTML span around a label
col(label) == << "<span style=\"font-weight:100\">", label, "</span>" >>

DISPLAY_ORDER ==
    << col("Andalucía"), col("Aragón"), col("Asturias"), col("Canarias"), col("Cantabria"),
       col("Castilla - La Mancha"), col("Castilla y León"), col("Cataluña"),
       col("Comunitat Valenciana"), col("Extremadura"), col("Galicia"), col("Madrid"),
       col("Murcia"), col("Navarra"), col("Illes Balears"), col("La Rioja"),
       col("País Vasco") >>

IGNORE_UNITS ==
    { Name("Ciudad Autónoma de Ceuta"), Name("Ciudad Autónoma de Melilla"),
      Name("Territorios no asociados a ninguna autonomía") }

\* NAMEUNIT_TO_DISPLAY as a set of << key, label >> pairs
NAMEUNIT_TO_DISPLAY ==
    { << Name("Andalucía"), col("Andalucía") >>,
      << Name("Aragón"), col("Aragón") >>,
      << Name("Principado de Asturias"), col("Asturias") >>,
      << Name("Asturias"), col("Asturias") >>,
      << Name("Canarias"), col("Canarias") >>,
      << Name("Cantabria"), col("Cantabria") >>,
      << Name("Castilla-La Mancha"), col("Castilla - La Mancha") >>,
      << Name("Castilla - La Mancha"), col("Castilla - La Mancha") >>,
      << Name("Castilla y León"), col("Castilla y León") >>,
      << Name("Cataluña"), col("Cataluña") >>,
      << Name("Catalunya"), col("Cataluña") >>,
      << << "Cataluña", "Catalunya" >>, col("Cataluña") >>,
      << Name("Comunitat Valenciana"), col("Comunitat Valenciana") >>,
      << Name("Extremadura"), col("Extremadura") >>,
      << Name("Galicia"), col("Galicia") >>,
      << Name("Comunidad de Madrid"), col("Madrid") >>,
      << Name("Madrid"), col("Madrid") >>,
      << Name("Región de Murcia"), col("Murcia") >>,
      << Name("Murcia"), col("Murcia") >>,
      << Name("Comunidad Foral de Navarra"), col("Navarra") >>,
      << Name("Navarra"), col("Navarra") >>,
      << Name("Illes Balears"), col("Illes Balears") >>,
      << Name("Islas Baleares"), col("Illes Balears") >>,
      << Name("La Rioja"), col("La Rioja") >>,
      << Name("País Vasco"), col("País Vasco") >>,
      << Name("Euskadi"), col("País Vasco") >>,
      << << "País Vasco", "Euskadi" >>, col("País Vasco") >> }

InTable(n) == \E e \in NAMEUNIT_TO_DISPLAY : e[1] = n
Lookup(n) == (CHOOSE e \in NAMEUNIT_TO_DISPLAY : e[1] = n)[2]

\* no label (None)
NoLabel == << >>

\* map_nameunit_to_label: the DISPLAY label of a NAMEUNIT, or None
map_nameunit_to_label(name) ==
    IF name \in IGNORE_UNITS THEN NoLabel
    ELSE IF InTable(name) THEN Lookup(name)
    ELSE IF Len(name) > 1 /\ \E i \in DOMAIN name : InTable(Name(name[i]))
         THEN Lookup(Name(name[SetMin({ i \in DOMAIN name : InTable(Name(name[i])) })]))
         ELSE NoLabel

\* buffer with a negative distance instead: the geometry loses its first cell
buffer_shrink(g) ==
    IF "c1" \in g THEN g \ { "c1" }
    ELSE IF "c2" \in g THEN g \ { "c2" }
    ELSE IF "c3" \in g THEN g \ { "c3" }
    ELSE g
\* safe_make_valid on one geometry: buffer(0) leaves a valid geometry as it is
safe_make_valid(g) == g

\* safe_make_valid(frame) has no try block: gdf["geometry"].buffer(0) raises
\* when GEOS raises on one of the geometries
buffer_raises(frame) == \E i \in DOMAIN frame : Unrepairable \in frame[i].geom

\* the keys a dissolved frame can have, in the order groupby sorts them
SortedKeys(p) ==
    IF p = "13" THEN
        << col("Andalucía"), col("Aragón"), col("Asturias"), col("Canarias"),
           col("Cantabria"), col("Castilla - La Mancha"), col("Castilla y León"),
           col("Cataluña"), col("Comunitat Valenciana"), col("Extremadura"),
           col("Galicia"), col("Illes Balears"), col("La Rioja"), col("Madrid"),
           col("Murcia"), col("Navarra"), col("País Vasco") >>
    ELSE
        << Name("Ciudad Autónoma de Ceuta"), Name("Comunidad de Madrid"),
           Name("Madrid"), Name("Región de Murcia") >>

\* the key a boundary Feature is dissolved by: NAMEUNIT (11, 12) or LABEL (13)
KeyOf(p, f) == IF p = "13" THEN map_nameunit_to_label(f.NAMEUNIT) ELSE f.NAMEUNIT

\* the rows of `frame` the script keeps before dissolving: all of them (11, 12),
\* those whose LABEL is in DISPLAY_ORDER (13)
KeepRows(p, frame) ==
    IF p = "13"
    THEN { i \in DOMAIN frame : KeyOf(p, frame[i]) \in Range(DISPLAY_ORDER) }
    ELSE DOMAIN frame

\* dissolve that keeps the geometry of the first row of each group only
group_first(p, rows) ==
    LET keys == { rows[i].key : i \in DOMAIN rows }
        Present(k) == k \in keys
        ordered == SelectSeq(SortedKeys(p), Present)
        geomOf(k) == rows[SetMin({ j \in DOMAIN rows : rows[j].key = k })].geom
    IN  [n \in DOMAIN ordered |->
            [ key |-> ordered[n],
              geom |-> safe_make_valid(geomOf(ordered[n])),
              area_total_ha |-> IF p = "13" THEN NA
                               ELSE AreaHa(safe_make_valid(geomOf(ordered[n]))) ]]
\* rows.dissolve(by=key, as_index=False) on repaired rows, safe_make_valid and
\* (11, 12) add_area_ha: one row per key, in key order, its geometry the union
\* of the geometries of the group
group_union(p, rows) ==
    LET keys == { rows[i].key : i \in DOMAIN rows }
        Present(k) == k \in keys
        ordered == SelectSeq(SortedKeys(p), Present)
        geomOf(k) == UNION { safe_make_valid(rows[i].geom) :
                               i \in { j \in DOMAIN rows : rows[j].key = k } }
    IN  [n \in DOMAIN ordered |->
            [ key |-> ordered[n],
              geom |-> safe_make_valid(geomOf(ordered[n])),
              area_total_ha |-> IF p = "13" THEN NA
                               ELSE AreaHa(safe_make_valid(geomOf(ordered[n]))) ]]

\* main: the rows kept of the boundary frame, each with its key, dissolved
dissolve(p, frame) ==
    LET all == [i \in DOMAIN frame |-> i]
        Kept(i) == i \in KeepRows(p, frame)
        kept == SelectSeq(all, Kept)
    IN  group_union(p, [n \in DOMAIN kept |->
                          [key |-> KeyOf(p, frame[kept[n]]), geom |-> frame[kept[n]].geom]])

\* min_ha of every call of filter_fires_min_ha
FiresMinHa == 30

\* filter_fires_min_ha that looks for the area attribute in the first row only
filter_fires_first_row(ev, min) ==
    LET hasField == ev # << >> /\ ev[1].area_ha # NA
        area(i) == IF hasField THEN ev[i].area_ha ELSE AreaHa(ev[i].geom)
        Big(i) == area(i) # NA /\ area(i) >= min
    IN  SelectSeq([i \in DOMAIN ev |-> i], Big)
\* filter_fires_min_ha: the positions of the events kept.  The area column is
\* the attribute column when the frame has one, else the measured area
filter_fires_min_ha(ev, min) ==
    LET hasField == \E i \in DOMAIN ev : ev[i].area_ha # NA
        area(i) == IF hasField THEN ev[i].area_ha ELSE AreaHa(ev[i].geom)
        Big(i) == area(i) # NA /\ area(i) >= min      \* NaN >= min_ha is False
    IN  SelectSeq([i \in DOMAIN ev |-> i], Big)

\* gpd.overlay(ccaa_m, fires_m, how="intersection", keep_geom_type=True) with
\* burn_ha: one row per (boundary row, event) pair whose intersection has area
overlay(d, ev, big) ==
    LET pairs == [n \in 1..(Len(d) * Len(big)) |->
                    << ((n - 1) \div Len(big)) + 1, big[((n - 1) % Len(big)) + 1] >>]
        Meets(pr) == d[pr[1]].geom \cap safe_make_valid(ev[pr[2]].geom) # {}
        hit == SelectSeq(pairs, Meets)
    IN  [n \in DOMAIN hit |->
            [ key |-> d[hit[n][1]].key,
              ev |-> hit[n][2],
              burn_ha |-> AreaHa(d[hit[n][1]].geom \cap safe_make_valid(ev[hit[n][2]].geom)) ]]

\* inter.groupby(key)["burn_ha"].sum(): the sum of a key's rows (no entry for a
\* key without rows)
GroupFirst(rows, k) ==
    LET mine == { n \in DOMAIN rows : rows[n].key = k }
    IN  rows[SetMin(mine)].burn_ha
GroupSum(rows, k) ==
    LET mine == { n \in DOMAIN rows : rows[n].key = k }
    IN  SumOver([n \in DOMAIN rows |-> rows[n].burn_ha], mine)

HasGroup(rows, k) == \E n \in DOMAIN rows : rows[n].key = k

\* (burn_ha / area_total_ha) * 100.0 in floating point: NaN for 0 / 0
NoPct == [nan |-> TRUE, q |-> << 0, 1 >>]
PctNoScale(burn, total) ==
    IF total = 0 THEN NoPct ELSE [nan |-> FALSE, q |-> Rat(burn, total)]
PctOf(burn, total) ==
    IF total = 0 THEN NoPct ELSE [nan |-> FALSE, q |-> Rat(100 * burn, total)]

\* pd.merge(surface_df, burn_by, how="left").fillna({"burn_ha": 0.0}) with pct
merged(d, rows) ==
    [n \in DOMAIN d |->
        LET burn == IF HasGroup(rows, d[n].key) THEN GroupSum(rows, d[n].key) ELSE 0
        IN  [ key |-> d[n].key,
              area_total_ha |-> d[n].area_total_ha,
              burn_ha |-> burn,
              pct |-> PctOf(burn, d[n].area_total_ha) ]]

\* the sort by pct with ascending=True
sort_by_pct_asc(m) ==
    { p \in Orderings([n \in DOMAIN m |-> n]) :
        \A i, j \in DOMAIN p : i < j =>
            \/ m[p[j]].pct.nan
            \/ ~m[p[i]].pct.nan /\ RatLE(m[p[i]].pct.q, m[p[j]].pct.q) }
\* out.sort_values("pct", ascending=False): descending, NaN last, not stable
sort_by_pct(m) ==
    { p \in Orderings([n \in DOMAIN m |-> n]) :
        \A i, j \in DOMAIN p : i < j =>
            \/ m[p[j]].pct.nan
            \/ ~m[p[i]].pct.nan /\ RatLE(m[p[j]].pct.q, m[p[i]].pct.q) }

\* compute_year: burn_ha per label of DISPLAY_ORDER, 0 where the label has no row
YearSeries(rows) ==
    [n \in DOMAIN DISPLAY_ORDER |->
        [ key |-> DISPLAY_ORDER[n],
          area_total_ha |-> NA,
          burn_ha |-> IF HasGroup(rows, DISPLAY_ORDER[n])
                      THEN GroupSum(rows, DISPLAY_ORDER[n]) ELSE 0,
          pct |-> NoPct ]]

-----------------------------------------------------------------------------
(* The statistics scripts 11, 12 (main) and 13 (main, compute_year) *)

Boundary(n, g) == [NAMEUNIT |-> n, geom |-> g]
Event(g, a) == [geom |-> g, area_ha |-> a]

\* the boundary Features an input file is drawn from
BoundaryFeatures ==
    { Boundary(Name("Comunidad de Madrid"), { "c1", "c2", "c3" }),
      Boundary(Name("Comunidad de Madrid"), { "c4" }),
      Boundary(Name("Madrid"), { "c4" }),
      Boundary(Name("Región de Murcia"), { "c4" }),
      Boundary(Name("Región de Murcia"), { "c2", "c4" }),
      Boundary(Name("Región de Murcia"), {}),
      Boundary(Name("Ciudad Autónoma de Ceuta"), { "c4" }),
      Boundary(Name("Comunidad de Madrid"), { "c1", Unrepairable }) }

\* the event Features an input file is drawn from
EventFeatures ==
    { Event({ "c1" }, NA), Event({ "c2", "c4" }, NA), Event({ "c2" }, NA),
      Event({ "c2" }, 50), Event({ "c1" }, 10), Event({ "c2", "c4" }, 30),
      Event({ "c2", Unrepairable }, 50) }

\* the value of a column the frame does not have
NoName == << >>

\* boundary Features of a file without the NAMEUNIT property
UnnamedFeatures == { Boundary(NoName, { "c4" }), Boundary(NoName, { "c1", Unrepairable }) }

\* the input files a run can find: sound ones, and files with one defect (both
\* defects of the boundary frame together as well)
Sources ==
    { SrcOk,
      [SrcOk EXCEPT !.NAMEUNIT = FALSE],
      [SrcOk EXCEPT !.ccaa_crs = FALSE],
      [SrcOk EXCEPT !.NAMEUNIT = FALSE, !.ccaa_crs = FALSE],
      [SrcOk EXCEPT !.ccaa_exists = FALSE],
      [SrcOk EXCEPT !.fires_exists = FALSE],
      [SrcOk EXCEPT !.fires_crs = FALSE] }

\* the collections read from the files of source s; with a defective source
\* the run ends at a load check, whatever the Features are, and collections of
\* at most one Feature are enumerated
BoundaryInputs(s) ==
    IF ~s.ccaa_exists THEN { << >> }
    ELSE IF ~s.NAMEUNIT THEN SeqsUpTo(UnnamedFeatures, 1)
    ELSE IF s = SrcOk THEN SeqsUpTo(BoundaryFeatures, MaxBoundaries)
    ELSE SeqsUpTo(BoundaryFeatures, 1)
EventInputs(s) ==
    IF ~s.fires_exists THEN { << >> }
    ELSE IF s = SrcOk THEN SeqsUpTo(EventFeatures, MaxEvents)
    ELSE SeqsUpTo(EventFeatures, 1)

\* the checks of main before the boundary frame is used: os.path.exists of the
\* paths, "NAMEUNIT" in columns, crs is None; the exception raised, or "none"
load_check_no_field(p, s) ==
    IF ~s.ccaa_exists THEN "FileNotFoundError"
    ELSE IF p \in { "11", "12" } /\ ~s.fires_exists THEN "FileNotFoundError"
    ELSE IF ~s.ccaa_crs THEN "ValueError"
    ELSE "none"
load_check(p, s) ==
    IF ~s.ccaa_exists THEN "FileNotFoundError"
    ELSE IF p \in { "11", "12" } /\ ~s.fires_exists THEN "FileNotFoundError"
    ELSE IF ~s.NAMEUNIT \/ ~s.ccaa_crs THEN "ValueError"
    ELSE "none"

\* the checks on the event file: os.path.exists (compute_year of 13) and crs is None
fires_check(p, s) ==
    IF p = "13" /\ ~s.fires_exists THEN "FileNotFoundError"
    ELSE IF ~s.fires_crs THEN "ValueError"
    ELSE "none"

\* one row of data_for_sheet: the name twice and total, burned and percent as
\* f"{x:.2f}" (hundredths; "nan" for NaN)
SheetRow(r) ==
    << r.key, r.key, fmt(<< r.area_total_ha, 1 >>), fmt(<< r.burn_ha, 1 >>),
       IF r.pct.nan THEN "nan" ELSE fmt(r.pct.q) >>

\* the output files written at the end of main: OUT_JSON and OUT_CSV with the
\* sheet rows (11, 12), OUT_CSV with the row of the year (13)
Saved(p, rows) ==
    IF p = "13"
    THEN "OUT_CSV" :> << [n \in DOMAIN rows |-> rows[n].burn_ha] >>
    ELSE ("OUT_JSON" :> [n \in DOMAIN rows |-> SheetRow(rows[n])])
           @@ ("OUT_CSV" :> [n \in DOMAIN rows |-> SheetRow(rows[n])])

renderVarsButFiles == << gdf, cols, min_ha, area_ha_final, rows_kept, gran, rosa >>

InitStats ==
    /\ prog \in { "11", "12", "13" }
    /\ pc = "read"
    /\ err = "none"
    /\ src \in Sources
    /\ ccaa \in BoundaryInputs(src)
    /\ fires \in EventInputs(src)
    /\ diss = << >>
    /\ fires_big = << >>
    /\ inter = << >>
    /\ out = << >>
    /\ RenderIdle
    /\ ColorIdle
    /\ FnIdle

\* main: the checks on the paths and on the boundary frame read, then
\* safe_make_valid (an exception of buffer(0) leaves the run), (13) map and
\* keep the labelled rows, dissolve, safe_make_valid, (11, 12) add_area_ha
LoadAndDissolve ==
    /\ prog \in { "11", "12", "13" }
    /\ pc = "read"
    /\ IF load_check(prog, src) # "none"
       THEN Raise(load_check(prog, src)) /\ UNCHANGED diss
       ELSE IF buffer_raises(ccaa)
       THEN Raise("GEOSException") /\ UNCHANGED diss
       ELSE IF prog = "13" /\ KeepRows(prog, ccaa) = {}
       THEN Raise("RuntimeError") /\ UNCHANGED diss
       ELSE diss' = dissolve(prog, ccaa) /\ pc' = "fires" /\ err' = err
    /\ UNCHANGED << prog, ccaa, fires, fires_big, inter, out, src, renderVars, colorVars,
                    fnVars >>

\* main / compute_year: read the events, safe_make_valid (an exception of
\* buffer(0) leaves the run), filter_fires_min_ha;
\* compute_year returns zeros when no event is left
FilterFires ==
    /\ pc = "fires"
    /\ IF fires_check(prog, src) # "none"
       THEN Raise(fires_check(prog, src)) /\ UNCHANGED << fires_big, out, files >>
       ELSE IF buffer_raises(fires)
       THEN Raise("GEOSException") /\ UNCHANGED << fires_big, out, files >>
       ELSE /\ fires_big' = filter_fires_min_ha(fires, FiresMinHa)
            /\ err' = err
            /\ IF prog = "13" /\ fires_big' = << >>
               THEN /\ out' = YearSeries(<< >>) /\ pc' = "done"
                    /\ files' = Saved(prog, out')
               ELSE out' = out /\ pc' = "overlay" /\ files' = files
    /\ UNCHANGED << prog, ccaa, fires, diss, inter, src, renderVarsButFiles, colorVars, fnVars >>

\* main / compute_year: the overlay in the metric frame and burn_ha;
\* compute_year returns zeros when the overlay is empty
Overlay ==
    /\ pc = "overlay"
    /\ inter' = overlay(diss, fires, fires_big)
    /\ IF prog = "13" /\ inter' = << >>
       THEN out' = YearSeries(<< >>) /\ pc' = "done" /\ files' = Saved(prog, out')
       ELSE out' = out /\ pc' = "aggregate" /\ files' = files
    /\ UNCHANGED << prog, err, ccaa, fires, diss, fires_big, src, renderVarsButFiles, colorVars,
                    fnVars >>

\* main: groupby-sum, left merge, fillna, pct and the sort by pct (11, 12);
\* compute_year: groupby-sum, reindex(DISPLAY_ORDER), fillna (13); then the
\* output files are written
Aggregate ==
    /\ pc = "aggregate"
    /\ IF prog = "13"
       THEN out' = YearSeries(inter)
       ELSE \E p \in sort_by_pct(merged(diss, inter)) :
               out' = [n \in DOMAIN p |-> merged(diss, inter)[p[n]]]
    /\ pc' = "done"
    /\ files' = Saved(prog, out')
    /\ UNCHANGED << prog, err, ccaa, fires, diss, fires_big, inter, src, renderVarsButFiles, colorVars,
                    fnVars >>

NextStats ==
    \/ LoadAndDissolve
    \/ FilterFires
    \/ Overlay
    \/ Aggregate

SpecStats == InitStats /\ [][NextStats]_vars

-----------------------------------------------------------------------------
(* The classifier on one row *)

FireDates ==
    { FdNone, FdEmpty, FdBad } \cup
    { FdIso(d, h, off) : d \in { 7, 8 }, h \in { 0, 1, 23 }, off \in { 0, 2 } }
FireYears ==
    { FyNone, FyNaN, FyInt(2016), FyInt(2025), FyStr("2025"), FyStr(" 2025 "),
      FyStr("2025.0") }

InitColor ==
    /\ prog \in { "04", "06" }
    /\ pc = "classify"
    /\ err = "none"
    /\ row \in { [firedate |-> d, fireyear |-> y] : d \in FireDates, y \in FireYears }
    /\ color = ""
    /\ RenderIdle
    /\ StatsIdle
    /\ FnIdle

\* one call of pick_color (04) or pick_color_2025 (06) on the row
Classify ==
    /\ pc = "classify"
    /\ LET res == IF prog = "04" THEN pick_color(row, cutoff_dt_utc)
                  ELSE pick_color_2025(row, cutoff_dt_utc)
       IN  IF res.exc # "none"
           THEN Raise(res.exc) /\ color' = color
           ELSE color' = res.color /\ pc' = "done" /\ err' = err
    /\ UNCHANGED << prog, row, renderVars, statsVars, fnVars >>

NextColor == Classify

SpecColor == InitColor /\ [][NextColor]_vars

-----------------------------------------------------------------------------
(* Calls of make_valid, with every outcome of the two library calls *)

RawShapes == { PolygonEmpty, Square(1), Square(2), Donut, Collapsed(2) }

InitValid ==
    /\ prog \in { "02", "04", "06" }
    /\ pc = "call"
    /\ err = "none"
    /\ arg \in { [geom |-> g, rep |-> r, buf |-> b] :
                    g \in RawShapes,
                    r \in { Raised } \cup { Returned(shapely_make_valid(h)) : h \in RawShapes },
                    b \in { Raised } \cup { Returned(buffer0(h)) : h \in RawShapes } }
    /\ arg.rep.raises \/ arg.rep.geom = shapely_make_valid(arg.geom)
    /\ arg.buf.raises \/ arg.buf.geom = buffer0(arg.geom)
    /\ ret = << >>
    /\ RenderIdle
    /\ StatsIdle
    /\ ColorIdle

\* one call of make_valid(geom): no exception leaves it
MakeValid ==
    /\ pc = "call"
    /\ ret' = make_valid(arg.geom, arg.rep, arg.buf)
    /\ pc' = "return"
    /\ UNCHANGED << prog, err, arg, renderVars, statsVars, colorVars >>

NextValid == MakeValid

SpecValid == InitValid /\ [][NextValid]_vars

-----------------------------------------------------------------------------
(* Calls of map_nameunit_to_label of script 13 *)

\* the "/"-separated parts the NAMEUNIT values are made of
NameParts ==
    { "Madrid", "Murcia", "Región de Murcia", "Cataluña", "Catalunya", "País Vasco",
      "Euskadi", "Galicia", "Ciudad Autónoma de Ceuta", "Foo" }

InitLabel ==
    /\ prog = "13"
    /\ pc = "call"
    /\ err = "none"
    /\ arg \in UNION { [1..k -> NameParts] : k \in 1..2 }
    /\ ret = << >>
    /\ RenderIdle
    /\ StatsIdle
    /\ ColorIdle

\* one call of map_nameunit_to_label(name)
MapName ==
    /\ pc = "call"
    /\ ret' = map_nameunit_to_label(arg)
    /\ pc' = "return"
    /\ UNCHANGED << prog, err, arg, renderVars, statsVars, colorVars >>

NextLabel == MapName

SpecLabel == InitLabel /\ [][NextLabel]_vars

-----------------------------------------------------------------------------
(* Claims about the renderers, checked under SpecRender *)

\* the frame a written scene was drawn from
FrameIds(name) ==
    CASE name = "out" -> rows_kept
      [] name = "out_granates" -> gran
      [] OTHER -> rosa

\* the non-empty geometries of a frame
ShapesOf(ids) == { gdf[ids[k]].geom : k \in { j \in DOMAIN ids : ~is_empty(gdf[ids[j]].geom) } }

\* s is the largest scale at which every bounding box fits inner x inner: every
\* box fits, and one of them touches the limit
IsMaxFit(s, G) ==
    /\ \A g \in G : s[1] * BoundsW(g) <= inner * s[2] /\ s[1] * BoundsH(g) <= inner * s[2]
    /\ \E g \in G : s[1] * BoundsW(g) = inner * s[2] \/ s[1] * BoundsH(g) = inner * s[2]

\* C1: for every non-empty collection handed to draw_geoms_to_svg_scaled the
\* scale is computed (the computation does not fail) and is the unique largest
\* scale at which every shape's bounding box fits inner x inner, and every
\* shape of the scene is drawn with that one scale.
C1_GlobalScaleIsMaxFit ==
    /\ err \notin { "ValueError", "ZeroDivisionError" }
    /\ \A name \in DOMAIN files :
         files[name].n > 0 =>
           /\ IsMaxFit(files[name].global_scale, ShapesOf(FrameIds(name)))
           /\ \A k \in DOMAIN files[name].items :
                files[name].items[k].scale = files[name].global_scale

\* C6: in every written scene, Features with equal area occupy cells in their
\* original relative order (their order in the input file).
C6_SortIsStable ==
    \A name \in DOMAIN files :
      LET its == files[name].items
      IN  \A a, b \in DOMAIN its :
            (its[a].i < its[b].i
               /\ area_ha_final[its[a].id] = area_ha_final[its[b].id])
              => its[a].id < its[b].id

\* C7: in every written scene the Feature drawn at cell index i is the i-th of
\* the sorted frame, areas do not increase with the cell index, the cell is
\* (i div cols, i mod cols), and a rank text, where drawn, is i + 1.
C7_CellsDescendByArea ==
    \A name \in DOMAIN files :
      LET its == files[name].items
      IN  \A a, b \in DOMAIN its :
            /\ its[a].r = its[a].i \div cols /\ its[a].c = its[a].i % cols
            /\ gdf[its[a].id].geom # PolygonEmpty
            /\ its[a].rank # 0 => its[a].rank = its[a].i + 1
            /\ its[a].i < its[b].i =>
                 area_ha_final[its[a].id] >= area_ha_final[its[b].id]

\* C7 witness: script 02 wrote a scene in which the sort moved a larger Feature
\* in front of a smaller one that preceded it in the input, both with rank text.
C7_Witness ==
    /\ prog = "02"
    /\ "out" \in DOMAIN files
    /\ \E a, b \in DOMAIN files["out"].items :
         LET x == files["out"].items[a]
             y == files["out"].items[b]
         IN  /\ x.i < y.i /\ x.id > y.id
             /\ area_ha_final[x.id] > area_ha_final[y.id]
             /\ x.rank = 1 /\ y.rank = 2

\* C8 (as claimed): whenever a collection handed to the renderer is empty (the
\* full collection or a per-category sub-collection of script 06) the run fails
\* with an explicit error and no canvas is written for it.
C8_EmptyNeverDrawn ==
    /\ (pc # "read" /\ gdf = << >>) => (err = "SystemExit" /\ files = << >>)
    /\ \A name \in DOMAIN files : FrameIds(name) # << >> /\ files[name].n > 0
    /\ (pc \in { "rosas", "done" } /\ prog = "06" /\ gran = << >>) => err = "SystemExit"

\* the collection left by the area filter of the script (script 02 has none)
AfterFilter ==
    { i \in DOMAIN gdf : prog = "02" \/ compute_area_ha(gdf)[i] >= min_ha }

\* C8 (amended): when the full collection is empty, as read or after the area
\* filter, the run ends with SystemExit and no canvas is written; the scene
\* of the full collection is never an empty canvas.  An empty sub-collection
\* of script 06 is no error: the run goes on and writes for it the empty
\* canvas of (margin*2 + cell) x (margin*2 + cell), and a non-empty one is
\* drawn with all its Features; once the scene of the full collection is
\* written the run never ends with SystemExit.
C8_EmptyFullCollectionFails ==
    /\ (pc # "read" /\ gdf = << >>) =>
         (pc = "exit" /\ err = "SystemExit" /\ files = << >>)
    /\ (pc \notin { "read", "filter" } /\ AfterFilter = {}) =>
         (pc = "exit" /\ err = "SystemExit" /\ files = << >>)
    /\ "out" \in DOMAIN files =>
         (files["out"].n = Len(rows_kept) /\ files["out"].n > 0)
    /\ \A name \in DOMAIN files \ { "out" } :
         IF FrameIds(name) = << >>
         THEN files[name] = EmptyCanvas /\ err # "SystemExit"
         ELSE files[name].n = Len(FrameIds(name))
    /\ (prog = "06" /\ pc \in { "rosas", "done" }) => "out_granates" \in DOMAIN files
    /\ (prog = "06" /\ pc = "done") => "out_rosas" \in DOMAIN files
    /\ "out" \in DOMAIN files => err # "SystemExit"

\* C8 witness: script 06 finished after writing the empty canvas for an empty
\* sub-collection, next to the scene of the non-empty full collection.
C8_Witness ==
    /\ prog = "06" /\ pc = "done" /\ gran = << >>
    /\ files["out_granates"] = EmptyCanvas
    /\ files["out"].n > 0

-----------------------------------------------------------------------------
(* Claims about the statistics scripts, checked under SpecStats *)

\* the qualifying events: those filter_fires_min_ha kept
Qualifying == Range(fires_big)

\* the area of boundary geometry g covered by each qualifying event, summed
BurnedIn(g) == SumOver([e \in DOMAIN fires |-> AreaHa(g \cap fires[e].geom)], Qualifying)

RowsOf(k) == { m \in DOMAIN out : out[m].key = k }
SumBurn == SumOver([m \in DOMAIN out |-> out[m].burn_ha], DOMAIN out)

\* C2: the result has exactly one row for every label of the dissolved
\* boundary set, and a label that no qualifying event intersects has burned
\* area 0 and (scripts 11, 12, which output a percent) percent 0.
C2_OneRowPerLabel ==
    pc = "done" =>
      \A n \in DOMAIN diss :
        /\ Cardinality(RowsOf(diss[n].key)) = 1
        /\ (\A e \in Qualifying : diss[n].geom \cap fires[e].geom = {}) =>
             \A m \in RowsOf(diss[n].key) :
               /\ out[m].burn_ha = 0
               /\ prog # "13" => (~out[m].pct.nan /\ out[m].pct.q = << 0, 1 >>)

\* C3: for every boundary label the burned area is the sum over the
\* qualifying events of the area of (boundary intersected with event), the
\* total area is the area of the dissolved boundary, and percent is
\* 100 * burned / total (scripts 11, 12; the quotient exists when total > 0).
C3_BurnedAreaAndPercent ==
    pc = "done" =>
      \A n \in DOMAIN diss : \A m \in RowsOf(diss[n].key) :
        /\ out[m].burn_ha = BurnedIn(diss[n].geom)
        /\ prog # "13" =>
             /\ out[m].area_total_ha = AreaHa(diss[n].geom)
             /\ out[m].area_total_ha > 0 =>
                  /\ ~out[m].pct.nan
                  /\ out[m].pct.q[1] * out[m].area_total_ha
                       = 100 * out[m].burn_ha * out[m].pct.q[2]

\* C3 witness: a boundary of 1000 ha, two qualifying events whose parts inside
\* it measure 30 ha and 20 ha, and the row (label, 1000, 50, 5.0).
C3_Witness ==
    /\ pc = "done" /\ prog = "11"
    /\ Len(fires_big) = 2
    /\ \E n \in DOMAIN diss : \E m \in RowsOf(diss[n].key) :
         /\ { AreaHa(diss[n].geom \cap fires[e].geom) : e \in Qualifying } = { 30, 20 }
         /\ out[m].area_total_ha = 1000
         /\ out[m].burn_ha = 50
         /\ out[m].pct = [nan |-> FALSE, q |-> << 5, 1 >>]

UnionOfBoundaries == UNION { diss[n].geom : n \in DOMAIN diss }
BoundariesDisjoint ==
    \A a, b \in DOMAIN diss : a # b => diss[a].geom \cap diss[b].geom = {}

\* C4 (as claimed): the burned areas of all labels sum to the sum over the
\* qualifying events of the area of (event intersected with the union of all
\* boundaries), for any boundary set.
C4_TotalsMatchUnion ==
    pc = "done" => SumBurn = BurnedIn(UnionOfBoundaries)

\* C4 (amended): the burned areas of all labels sum to the sum over the
\* qualifying events and the boundary units of the area of (event intersected
\* with unit); that is the area of (event intersected with the union of all
\* boundaries), summed over the events, when no two boundary units overlap.
C4_TotalsMatchPairs ==
    pc = "done" =>
      /\ SumBurn = SumOver([n \in DOMAIN diss |-> BurnedIn(diss[n].geom)], DOMAIN diss)
      /\ BoundariesDisjoint => SumBurn = BurnedIn(UnionOfBoundaries)

\* C4 witness: two boundary units that do not overlap, two qualifying events,
\* one of them lying across both units, and a burned total above zero.
C4_Witness ==
    /\ pc = "done" /\ Len(diss) = 2 /\ BoundariesDisjoint
    /\ Len(fires_big) = 2
    /\ \E e \in Qualifying : \A n \in DOMAIN diss : diss[n].geom \cap fires[e].geom # {}
    /\ SumBurn > 0

\* the area of one event as the claim reads it: its own attribute when it has
\* one, its measured area otherwise
AreaPerEvent(i) == IF fires[i].area_ha # NA THEN fires[i].area_ha ELSE AreaHa(fires[i].geom)

\* C5: filter_fires_min_ha keeps an event if and only if its area is >=
\* min_area_ha, the area of each event being its attribute when that event has
\* one and its measured area otherwise.
C5_FilterFallsBackPerEvent ==
    pc \in { "overlay", "aggregate", "done" } =>
      Qualifying = { i \in DOMAIN fires : AreaPerEvent(i) >= FiresMinHa }

-----------------------------------------------------------------------------
(* Claims about the classifier, checked under SpecColor *)

\* the year attribute as a number, where it is one
IsYear(y, v) ==
    \/ y.k = "int" /\ y.v = v
    \/ y.k = "str" /\ << y.s, v >> \in IntLiterals

\* the category the ordered rule gives: A when the date parses and is on or
\* after the cutoff, else B when the year is 2025, else C
CategoryOf(r) ==
    IF parse_firedate(r.firedate).some /\ parse_firedate(r.firedate).ts >= cutoff_dt_utc
    THEN COLOR_RECENT
    ELSE IF IsYear(r.fireyear, 2025) THEN COLOR_2025 ELSE COLOR_DEFAULT

\* C9: pick_color gives every Feature exactly one category, the first that
\* matches: A for a date >= cutoff (the cutoff included), else B for year 2025,
\* else the default C.
C9_FirstMatchWins ==
    (prog = "04" /\ pc # "classify") => (err = "none" /\ color = CategoryOf(row))

\* C10: a Feature whose date is missing, empty or unparseable is classified
\* without an exception, whatever its year attribute is.
C10_NeverRaises ==
    (pc # "classify" /\ ~parse_firedate(row.firedate).some) =>
      (pc = "done" /\ err = "none" /\ color \in { COLOR_2025, COLOR_DEFAULT })


-----------------------------------------------------------------------------
(* Claims about make_valid (SpecValid) *)

\* C11: make_valid never raises and follows a fixed fallback order: the result
\* of the validity repair when that call succeeds; only when it fails, the
\* result of buffer(0); only when both fail, the geometry it was given.
C11_MakeValidFallbackOrder ==
    pc = "return" =>
        /\ err = "none"
        /\ ~arg.rep.raises => ret = arg.rep.geom
        /\ (arg.rep.raises /\ ~arg.buf.raises) => ret = arg.buf.geom
        /\ (arg.rep.raises /\ arg.buf.raises) => ret = arg.geom

\* the repair of a collapsed ring fails, buffer(0) succeeds and its result is returned
C11_Witness ==
    /\ pc = "return"
    /\ arg.geom = Collapsed(2)
    /\ arg.rep.raises /\ ~arg.buf.raises
    /\ ret = PolygonEmpty


-----------------------------------------------------------------------------
(* Claims about the repair of geometries in the statistics scripts (SpecStats) *)

\* C12 (as claimed): in the statistics path a geometry the repair fails on is
\* never fatal: whatever the boundary and event geometries are, the run does
\* not end with the exception the repair primitive raised.
C12_RepairFailureNotFatal ==
    (buffer_raises(ccaa) \/ buffer_raises(fires)) => err # "GEOSException"


-----------------------------------------------------------------------------
(* Claims about compute_area_ha and the grid of the renderers (SpecRender) *)

\* C13: compute_area_ha gives one area per Feature, decided per Feature: the
\* Feature's own area_ha attribute when it is present, the measured area
\* (m2 / 10000) when it is missing, whether some, all or none of the Features
\* of the collection carry the attribute.
C13_AreaPerFeature ==
    area_ha_final # << >> =>
        /\ DOMAIN area_ha_final = DOMAIN gdf
        /\ \A i \in DOMAIN gdf :
              area_ha_final[i] = IF gdf[i].area_ha # NA THEN gdf[i].area_ha
                                 ELSE GeomAreaHa(gdf[i].geom)

\* a collection in which one Feature carries the attribute and another does not
C13_Witness ==
    /\ area_ha_final # << >>
    /\ \E i, j \in DOMAIN gdf :
          /\ gdf[i].area_ha = NA /\ area_ha_final[i] = GeomAreaHa(gdf[i].geom)
          /\ area_ha_final[i] > 0
          /\ gdf[j].area_ha # NA /\ area_ha_final[j] = gdf[j].area_ha
          /\ area_ha_final[j] # GeomAreaHa(gdf[j].geom)


-----------------------------------------------------------------------------
(* Claims about the dissolve of the boundaries (SpecStats) *)

\* the boundary frame has been dissolved
Dissolved == pc \in { "fires", "overlay", "aggregate", "done" }

\* the Features of the boundary file the label function gives a label
Labelled == { i \in DOMAIN ccaa : KeyOf(prog, ccaa[i]) # NoLabel }

\* C14: dissolving yields exactly one BoundaryUnit per distinct label among the
\* labelled input Features, its geometry the union of exactly the Features
\* carrying that label; Features without a label contribute to no unit.
C14_OneUnitPerLabel ==
    Dissolved =>
        /\ { diss[n].key : n \in DOMAIN diss } = { KeyOf(prog, ccaa[i]) : i \in Labelled }
        /\ \A n, m \in DOMAIN diss : n # m => diss[n].key # diss[m].key
        /\ \A n \in DOMAIN diss :
              diss[n].geom =
                UNION { ccaa[i].geom : i \in { j \in Labelled : KeyOf(prog, ccaa[j]) = diss[n].key } }

\* script 13 with one ignored or unmapped Feature and one labelled Feature
C14_Witness ==
    /\ Dissolved /\ prog = "13"
    /\ Len(ccaa) = 2 /\ Len(diss) = 1
    /\ \E i \in DOMAIN ccaa : i \notin Labelled /\ ccaa[i].geom # {}

\* C15: dissolving the dissolved output again by the same label yields the
\* same BoundaryUnits: the same labels and the same geometry per label.
C15_DissolveIdempotent ==
    Dissolved => group_union(prog, diss) = diss

\* two Features of one label merged into one unit, which a second dissolve keeps
C15_Witness ==
    /\ Dissolved /\ prog = "11"
    /\ Len(ccaa) = 2 /\ Len(diss) = 1 /\ ccaa[1].geom # ccaa[2].geom
    /\ group_union(prog, diss) = diss


-----------------------------------------------------------------------------
(* Claims about map_nameunit_to_label (SpecLabel) *)

\* the canonical labels the parts of a name resolve to
PartLabels(name) ==
    { Lookup(Name(name[i])) : i \in { j \in DOMAIN name : InTable(Name(name[j])) } }

\* a name that resolves through the table without a guess: the whole name is a
\* key, or it is bilingual and all its parts resolve to one and the same label
Unambiguous(name) ==
    /\ name \notin IGNORE_UNITS
    /\ \/ InTable(name)
       \/ /\ Len(name) > 1
          /\ \A i \in DOMAIN name : InTable(Name(name[i]))
          /\ Cardinality(PartLabels(name)) = 1

\* C16 (as claimed): map_nameunit_to_label returns no label for every name that
\* is ignored, unmapped or ambiguous (a bilingual name whose parts do not all
\* resolve to one and the same label), and a label only for a name that
\* resolves unambiguously through the table.
C16_NoGuessing ==
    pc = "return" =>
        /\ ret # NoLabel <=> Unambiguous(arg)
        /\ (InTable(arg) /\ arg \notin IGNORE_UNITS) => ret = Lookup(arg)


-----------------------------------------------------------------------------
(* Claims about zero extents, the grid and the paths of a scene (SpecRender) *)

\* a geometry whose bounding extent has zero width or zero height (or is empty)
ZeroExtent(g) == is_empty(g) \/ BoundsW(g) = 0 \/ BoundsH(g) = 0

\* C17 (as claimed): a geometry of zero width or zero height is no error, even
\* when the collection holds nothing else; it is left out of the global-scale
\* computation, which is the maximum fit of the other shapes, and is not drawn.
C17_ZeroExtentExcluded ==
    /\ err \notin { "ValueError", "ZeroDivisionError" }
    /\ \A name \in DOMAIN files :
         LET G == { g \in ShapesOf(FrameIds(name)) : ~ZeroExtent(g) }
         IN  /\ G # {} => IsMaxFit(files[name].global_scale, G)
             /\ \A k \in DOMAIN files[name].items :
                  ~ZeroExtent(gdf[files[name].items[k].id].geom)

\* C18: in every scene of n >= 1 Features the cell of index i is row-major,
\* (row, col) = (i div cols, i mod cols), with origin (margin + col*cell + pad,
\* margin + row*cell + pad); distinct indices have distinct cells; the canvas is
\* margin*2 + cols*cell wide and margin*2 + ceil(n/cols)*cell high, and the
\* inner box of every cell lies inside it, at least margin from each edge.
C18_RowMajorCellsInsideCanvas ==
    \A name \in DOMAIN files :
      LET sc == files[name]
          its == sc.items
      IN  sc.n >= 1 =>
            /\ sc.width = Margin * 2 + cols * Cell
            /\ \E rows \in 1..sc.n :
                  /\ rows * cols >= sc.n /\ (rows - 1) * cols < sc.n
                  /\ sc.height = Margin * 2 + rows * Cell
            /\ \A k \in DOMAIN its :
                  /\ its[k].i \in 0..(sc.n - 1)
                  /\ its[k].r = its[k].i \div cols /\ its[k].c = its[k].i % cols
                  /\ its[k].ox_cell = Margin + its[k].c * Cell + inner_pad
                  /\ its[k].oy_cell = Margin + its[k].r * Cell + inner_pad
                  /\ its[k].ox_cell >= Margin /\ its[k].ox_cell + inner <= sc.width - Margin
                  /\ its[k].oy_cell >= Margin /\ its[k].oy_cell + inner <= sc.height - Margin
            /\ \A k, l \in DOMAIN its :
                  k # l => << its[k].r, its[k].c >> # << its[l].r, its[l].c >>

\* two Features drawn in one column (cols = 1): the second cell is in row 1
C18_Witness ==
    /\ cols = 1
    /\ "out" \in DOMAIN files
    /\ Len(files["out"].items) = 2
    /\ files["out"].items[2].r = 1 /\ files["out"].items[2].c = 0
    /\ files["out"].height = Margin * 2 + 2 * Cell

\* the X and the Y values (in hundredths) of the move-to and line-to commands of a path
PathXs(d) == { d[j][2] : j \in { k \in DOMAIN d : d[k][1] # "Z" } }
PathYs(d) == { d[j][3] : j \in { k \in DOMAIN d : d[k][1] # "Z" } }

\* every emitted vertex of item `it` lies in the inner box of its cell and the
\* top-left corner of the drawn bounding box is the cell origin
AnchoredInCell(it) ==
    /\ PathXs(it.d) # {}
    /\ SetMin(PathXs(it.d)) = 100 * it.ox_cell
    /\ SetMin(PathYs(it.d)) = 100 * it.oy_cell
    /\ \A x \in PathXs(it.d) : 100 * it.ox_cell <= x /\ x <= 100 * (it.ox_cell + inner)
    /\ \A y \in PathYs(it.d) : 100 * it.oy_cell <= y /\ y <= 100 * (it.oy_cell + inner)

\* C19 (as claimed): in every scene every non-empty Feature is drawn with the
\* one global scale s; its drawn bounding box is exactly s*w wide and s*h high,
\* its top-left corner is the cell origin and every vertex is in the inner box.
C19_DrawnAtGlobalScale ==
    \A name \in DOMAIN files :
      LET sc == files[name]
          ids == FrameIds(name)
      IN  /\ \A k \in DOMAIN ids :
                ~is_empty(gdf[ids[k]].geom) =>
                    \E m \in DOMAIN sc.items : sc.items[m].id = ids[k]
          /\ \A m \in DOMAIN sc.items :
                LET it == sc.items[m]
                    g == gdf[it.id].geom
                IN  /\ it.scale = sc.global_scale
                    /\ AnchoredInCell(it)
                    /\ (SetMax(PathXs(it.d)) - SetMin(PathXs(it.d))) * it.scale[2]
                          = 100 * it.scale[1] * BoundsW(g)
                    /\ (SetMax(PathYs(it.d)) - SetMin(PathYs(it.d))) * it.scale[2]
                          = 100 * it.scale[1] * BoundsH(g)

\* C19 (amended): in every scene every non-empty polygonal Feature, and no
\* other, is drawn, with the one global scale s; every emitted coordinate is
\* rounded to two decimals, so the drawn bounding box is s*w and s*h rounded
\* to two decimals; its top-left corner is the cell origin and every emitted
\* vertex is in the inner box of the cell.
C19_PolygonsDrawnRounded ==
    \A name \in DOMAIN files :
      LET sc == files[name]
          ids == FrameIds(name)
      IN  /\ \A k \in DOMAIN ids :
                (~is_empty(gdf[ids[k]].geom) /\ IsPolygonal(gdf[ids[k]].geom))
                  <=> \E m \in DOMAIN sc.items : sc.items[m].id = ids[k]
          /\ \A m \in DOMAIN sc.items :
                LET it == sc.items[m]
                    g == gdf[it.id].geom
                IN  /\ it.scale = sc.global_scale
                    /\ AnchoredInCell(it)
                    /\ SetMax(PathXs(it.d)) - SetMin(PathXs(it.d))
                          = fmt(Rat(it.scale[1] * BoundsW(g), it.scale[2]))
                    /\ SetMax(PathYs(it.d)) - SetMin(PathYs(it.d))
                          = fmt(Rat(it.scale[1] * BoundsH(g), it.scale[2]))

\* a 3 x 3 shape and a 1 x 1 square in one scene: scale 56/3, the shape is
\* drawn 56.00 wide and the square 18.67 wide, each at its cell origin
C19_Witness ==
    /\ "out" \in DOMAIN files
    /\ files["out"].global_scale = << 56, 3 >>
    /\ Len(files["out"].items) = 2
    /\ LET a == files["out"].items[1]
           b == files["out"].items[2]
       IN  /\ SetMax(PathXs(a.d)) - SetMin(PathXs(a.d)) = 5600
           /\ SetMax(PathXs(b.d)) - SetMin(PathXs(b.d)) = 1867
           /\ SetMin(PathXs(b.d)) = 100 * b.ox_cell /\ a.ox_cell # b.ox_cell

\* the rings of a geometry in emission order: of every polygon the exterior,
\* then its holes
RingsInOrder(g) ==
    Flatten([p \in DOMAIN g.geoms |-> << g.geoms[p].exterior >> \o g.geoms[p].interiors])

\* C20: the path of a drawn Feature is, for every polygon, the subpath of the
\* exterior and then of the holes h_1..h_k in order; a ring of m vertices gives
\* one move-to for its first vertex, m-1 line-to in vertex order and one
\* close, and every ring is emitted with the same transform.
C20_SubpathsPerRing ==
    \A name \in DOMAIN files :
      \A m \in DOMAIN files[name].items :
        LET it == files[name].items[m]
            g == gdf[it.id].geom
            rings == RingsInOrder(g)
            Sub(r) ==
                [j \in 1..(Len(rings[r]) + 1) |->
                    IF j = Len(rings[r]) + 1 THEN << "Z", NA, NA >>
                    ELSE LET t == transform(rings[r][j][1], rings[r][j][2],
                                            it.ox_cell, it.oy_cell, it.scale, Bounds(g))
                         IN  << IF j = 1 THEN "M" ELSE "L", fmt(t[1]), fmt(t[2]) >>]
        IN  /\ it.d = Flatten([r \in DOMAIN rings |-> Sub(r)])
            /\ Cardinality({ j \in DOMAIN it.d : it.d[j][1] = "M" }) = Len(rings)
            /\ Cardinality({ j \in DOMAIN it.d : it.d[j][1] = "Z" }) = Len(rings)

\* a polygon with one hole is drawn: two subpaths of five vertices each
C20_Witness ==
    \E name \in DOMAIN files :
      \E m \in DOMAIN files[name].items :
        LET it == files[name].items[m]
        IN  /\ gdf[it.id].geom = Donut
            /\ Len(it.d) = 12
            /\ it.d[1][1] = "M" /\ it.d[6][1] = "Z" /\ it.d[7][1] = "M" /\ it.d[12][1] = "Z"
            /\ \A j \in { 2, 3, 4, 5, 8, 9, 10, 11 } : it.d[j][1] = "L"


-----------------------------------------------------------------------------
(* Claims about the order and the inputs of the result rows (SpecStats) *)

\* the result rows of scripts 11 and 12 are written
Tabled == pc = "done" /\ prog \in { "11", "12" }

\* percent(a) >= percent(b) as floating point compares: false when one is NaN
PctGE(a, b) == ~a.pct.nan /\ ~b.pct.nan /\ RatLE(b.pct.q, a.pct.q)

Perms(n) == Permutations(1..n)
Permuted(s, p) == [i \in DOMAIN s |-> s[p[i]]]

\* the per-label rows (label, total area, burned area, percent) the script
\* computes from the dissolved boundary frame d and event Features e, as a set
PerLabel(p, d, e) ==
    LET big == filter_fires_min_ha(e, FiresMinHa)
        rows == overlay(d, e, big)
    IN  Range(IF p = "13" THEN YearSeries(rows) ELSE merged(d, rows))

\* C22: the result does not depend on the order of the input collections:
\* with the event Features permuted every label has the same total area,
\* burned area and percent, and with the boundary Features permuted before
\* dissolving the dissolved frame, from which the rows are computed, is the same.
C22_OrderIndependent ==
    pc = "done" =>
        /\ \A pe \in Perms(Len(fires)) :
              PerLabel(prog, diss, Permuted(fires, pe)) = Range(out)
        /\ \A pb \in Perms(Len(ccaa)) :
              dissolve(prog, Permuted(ccaa, pb)) = diss

\* two different boundary Features of one label and two different qualifying
\* events that both burn it: the burned area of the label is the sum of two terms
C22_Witness ==
    /\ Tabled
    /\ Len(ccaa) = 2 /\ ccaa[1] # ccaa[2] /\ Len(diss) = 1
    /\ Len(fires_big) = 2 /\ fires[1] # fires[2] /\ Len(inter) = 2
    /\ inter[1].burn_ha # inter[2].burn_ha
    /\ out[1].burn_ha = inter[1].burn_ha + inter[2].burn_ha

\* C23: if the boundary source lacks the NAMEUNIT field, the run stops with an
\* error at load time, before any dissolve, overlay or aggregation step has
\* run and before any output file is created or modified.
C23_MissingLabelFieldFatal ==
    (prog \in { "11", "12", "13" } /\ ~src.NAMEUNIT /\ pc # "read") =>
        /\ pc = "exit" /\ err = "ValueError"
        /\ diss = << >> /\ fires_big = << >> /\ inter = << >> /\ out = << >>
        /\ files = << >>

\* a boundary file with a CRS and a Feature, but no NAMEUNIT: the run has ended
\* with ValueError, although the geometry could not have been repaired either
C23_Witness ==
    /\ pc = "exit" /\ err = "ValueError"
    /\ src = [SrcOk EXCEPT !.NAMEUNIT = FALSE]
    /\ Len(ccaa) = 1 /\ buffer_raises(ccaa)
    /\ files = << >>

-----------------------------------------------------------------------------
(* Claims about the sub-collections and the scenes of script 06 (SpecRender) *)

\* the two sub-collections of script 06 exist
Split == prog = "06" /\ pc \in { "granates", "rosas", "done" }

\* C24: in script 06 the granate and the rosa sub-collections partition the
\* filtered collection, and a Feature is in the granate one if and only if
\* pick_color_2025 gives it the granate colour in the scene of all Features;
\* a Feature whose date is missing or unparseable is rosa in both.
C24_SubsetsPartitionByColor ==
    Split =>
        /\ Range(gran) \cup Range(rosa) = Range(rows_kept)
        /\ Range(gran) \cap Range(rosa) = {}
        /\ Len(gran) + Len(rosa) = Len(rows_kept)
        /\ \A i \in Range(rows_kept) :
              /\ i \in Range(gran)
                   <=> pick_color_2025(gdf[i], cutoff_dt_utc).color = COLOR_GRANATE
              /\ ~parse_firedate(gdf[i].firedate).some =>
                   /\ i \in Range(rosa)
                   /\ pick_color_2025(gdf[i], cutoff_dt_utc).color = COLOR_ROSA
        /\ \A k \in DOMAIN files["out"].items :
              LET it == files["out"].items[k]
              IN  IF it.id \in Range(gran) THEN it.fill = COLOR_GRANATE
                  ELSE it.id \in Range(rosa) /\ it.fill = COLOR_ROSA

\* a Feature dated at the cutoff instant and a Feature with an unparseable
\* date, both drawn in the scene of all, one granate and one rosa
C24_Witness ==
    /\ Split /\ pc = "done"
    /\ Len(gran) = 1 /\ Len(rosa) = 1
    /\ gdf[gran[1]].firedate = FdIso(8, 0, 0)
    /\ gdf[rosa[1]].firedate = FdBad
    /\ { files["out"].items[k].fill : k \in DOMAIN files["out"].items }
          = { COLOR_GRANATE, COLOR_ROSA }

\* the largest width and height among the non-empty shapes of a frame
MaxW(ids) == SetMax({ BoundsW(g) : g \in ShapesOf(ids) })
MaxH(ids) == SetMax({ BoundsH(g) : g \in ShapesOf(ids) })

\* a frame with positive extents
PositiveExtents(ids) == ShapesOf(ids) # {} /\ MaxW(ids) > 0 /\ MaxH(ids) > 0

\* the drawn sub-collection scenes of script 06 (not the empty canvas)
SubScenes == { name \in DOMAIN files \ { "out" } : files[name].n > 0 }

\* C25: the global scale is recomputed per scene from that scene's own shapes;
\* for a non-empty sub-collection S of a collection C, both with positive
\* extents, scale(S) >= scale(C), so no Feature is drawn smaller in the subset
\* scene than in the full scene, and scale(S) > scale(C) when S has none of
\* the shapes that attain the maximum width and the maximum height of C.
C25_SubsetScaleNotSmaller ==
    \A name \in SubScenes :
      LET S == FrameIds(name)
          sS == files[name].global_scale
          sC == files["out"].global_scale
      IN  (PositiveExtents(S) /\ PositiveExtents(rows_kept)) =>
            /\ IsMaxFit(sS, ShapesOf(S))
            /\ RatLE(sC, sS)
            /\ \A k \in DOMAIN files[name].items :
                  /\ files[name].items[k].scale = sS
                  /\ \A m \in DOMAIN files["out"].items :
                        files["out"].items[m].id = files[name].items[k].id =>
                          RatLE(files["out"].items[m].scale, files[name].items[k].scale)
            /\ (MaxW(S) < MaxW(rows_kept) /\ MaxH(S) < MaxH(rows_kept)) =>
                  ~RatLE(sS, sC)

\* the 1 x 1 square alone in the granate scene, with the 3 x 3 shape in the
\* full scene: it is drawn 18.67 wide in the full scene, 56.00 wide in its own
C25_Witness ==
    /\ prog = "06" /\ "out_granates" \in SubScenes
    /\ files["out"].global_scale = << 56, 3 >>
    /\ files["out_granates"].global_scale = << 56, 1 >>
    /\ Len(files["out_granates"].items) = 1
    /\ LET a == files["out_granates"].items[1]
       IN  /\ SetMax(PathXs(a.d)) - SetMin(PathXs(a.d)) = 5600
           /\ \E m \in DOMAIN files["out"].items :
                 LET b == files["out"].items[m]
                 IN  b.id = a.id /\ SetMax(PathXs(b.d)) - SetMin(PathXs(b.d)) = 1867

-----------------------------------------------------------------------------
(* Claims about the parts of a MultiPolygon (SpecRender) *)

\* the vertex behind every command of a path: the vertices of the rings in
\* emission order, with a placeholder for the close of each ring
VerticesOf(g) ==
    LET rings == RingsInOrder(g)
    IN  Flatten([r \in DOMAIN rings |-> rings[r] \o << << NA, NA >> >>])

\* C26: all member polygons of a MultiPolygon Feature are emitted as one path
\* in one cell, with the same scale and cell origin and the translation taken
\* from the bounds of the whole Feature: the offset between any two emitted
\* vertices, of the same or of different members, is the scale times their
\* offset in the geometry (each coordinate rounded to two decimals, y flipped),
\* and the drawn parts together are anchored at the cell origin.
C26_PartsShareTransform ==
    \A name \in DOMAIN files :
      \A m \in DOMAIN files[name].items :
        LET it == files[name].items[m]
            g == gdf[it.id].geom
            vs == VerticesOf(g)
            pts == { j \in DOMAIN it.d : it.d[j][1] # "Z" }
        IN  g.type = "MultiPolygon" =>
              /\ Len(it.d) = Len(vs)
              /\ Cardinality({ k \in DOMAIN files[name].items :
                                 files[name].items[k].id = it.id }) = 1
              /\ it.scale = files[name].global_scale
              /\ Cardinality({ j \in DOMAIN it.d : it.d[j][1] = "M" }) = Len(g.geoms)
              /\ AnchoredInCell(it)
              /\ \A j, k \in pts :
                    /\ Abs((it.d[j][2] - it.d[k][2]) * it.scale[2]
                             - 100 * it.scale[1] * (vs[j][1] - vs[k][1])) <= it.scale[2]
                    /\ Abs((it.d[j][3] - it.d[k][3]) * it.scale[2]
                             + 100 * it.scale[1] * (vs[j][2] - vs[k][2])) <= it.scale[2]

\* the two squares drawn at scale 56/3 as one path of two subpaths: the second
\* square starts 37.33 to the right of the cell origin and at its top, the
\* first at the origin's x and 18.67 below the top
C26_Witness ==
    \E name \in DOMAIN files :
      \E m \in DOMAIN files[name].items :
        LET it == files[name].items[m]
        IN  /\ gdf[it.id].geom = TwoSquares
            /\ it.scale = << 56, 3 >>
            /\ Len(it.d) = 12 /\ it.d[1][1] = "M" /\ it.d[7][1] = "M"
            /\ SetMin({ it.d[j][2] : j \in 1..5 }) = 100 * it.ox_cell
            /\ SetMin({ it.d[j][2] : j \in 7..11 }) = 100 * it.ox_cell + 3733
            /\ SetMin({ it.d[j][3] : j \in 7..11 }) = 100 * it.oy_cell
            /\ SetMin({ it.d[j][3] : j \in 1..5 }) = 100 * it.oy_cell + 1867

=============================================================================
